---- MODULE Spec2Model ----
(***************************************************************************)
(* A model of the MDX compile entry point of bunny-mdx,                    *)
(* mdast_to_jsx_with_options (crates/bunny-mdx/src/codegen/renderer.rs).   *)
(*                                                                         *)
(* Text is modelled as a sequence of tokens (strings); the assembled       *)
(* module is a sequence of entries, one per pushed statement, each         *)
(* carrying the section of the output it was written in and its text.      *)
(* One compile is one behaviour: Init picks the caller's tree and options, *)
(* and the actions are the steps of the function in program order, then    *)
(* the host entry point that called it (bunny-wasm, bunny-mdx-node, bunny) *)
(* returns.  SpecConc runs two compiles on two threads.                    *)
(***************************************************************************)
EXTENDS Integers, Sequences, FiniteSets, TLC

VARIABLES
    root,           \* the tree the caller passed in (&Node)
    options,        \* the caller's MdxOptions: plugins, jsx_runtime
    pc,             \* position in mdast_to_jsx_with_options
    cleaned_root,   \* the compile's own copy of the tree
    frontmatter,    \* Option<Frontmatter> returned by extract_frontmatter
    k,              \* index of the next plugin of the running phase
    idx,            \* index of the next top-level child
    imports,        \* Vec<String>
    named_exports,  \* Vec<String>
    reexports,      \* Vec<String>
    jsx_elements,   \* Vec<String>
    ctx,            \* CodegenContext
    output,         \* the module text being assembled
    result,         \* the Result<String> returned
    log,            \* history: every plugin invocation, in order
    host,           \* what a host adapter returned to its caller
    other           \* the locals of a second compile that is not running now

vars == <<root, options, pc, cleaned_root, frontmatter, k, idx, imports,
          named_exports, reexports, jsx_elements, ctx, output, result, log, host, other>>

(***************************************************************************)
(* Bounds of the model.                                                    *)
(***************************************************************************)
\* top-level children of the root plus registered plugins of one compile
MaxInput == 3

(***************************************************************************)
(* Helpers on sequences.                                                   *)
(***************************************************************************)
Range(s) == {s[i] : i \in 1..Len(s)}

RECURSIVE SeqsUpTo(_, _)
SeqsUpTo(S, n) ==
    IF n = 0 THEN {<<>>}
    ELSE LET shorter == SeqsUpTo(S, n - 1)
         IN  shorter \cup {Append(s, x) : s \in shorter, x \in S}

RECURSIVE Join(_, _)
Join(ss, sep) ==
    IF ss = <<>> THEN <<>>
    ELSE IF Len(ss) = 1 THEN ss[1]
    ELSE ss[1] \o <<sep>> \o Join(Tail(ss), sep)

StartsWith(s, p) == Len(s) >= Len(p) /\ SubSeq(s, 1, Len(p)) = p

(***************************************************************************)
(* Text.  str::trim strips leading and trailing whitespace.                *)
(***************************************************************************)
Whitespace == {" ", "\n"}

RECURSIVE TrimStart(_)
TrimStart(s) ==
    IF s # <<>> /\ Head(s) \in Whitespace THEN TrimStart(Tail(s)) ELSE s

RECURSIVE TrimEnd(_)
TrimEnd(s) ==
    IF s # <<>> /\ s[Len(s)] \in Whitespace
    THEN TrimEnd(SubSeq(s, 1, Len(s) - 1)) ELSE s

Trim(s) == TrimEnd(TrimStart(s))

\* no line break among s[i..j]
SameLine(s, i, j) == \A m \in i..j : s[m] # "\n"

(***************************************************************************)
(* crate::esm, the syntactic sniffing of a raw-module-code text.           *)
(***************************************************************************)
\* an export sourced from another module: "export ... from" on one line
is_reexport(code) ==
    \E i \in 1..Len(code) : \E j \in (i + 1)..Len(code) :
        code[i] = "export" /\ code[j] = "from" /\ SameLine(code, i, j)

\* some export of the text exports a binding other than the default
has_named_exports(code) ==
    \E i \in 1..(Len(code) - 1) :
        code[i] = "export" /\ code[i + 1] \notin {"default", "\n"}

\* the local names bound between "import" and "from"
extract_imported_names(code) ==
    {code[j] : j \in {m \in 1..Len(code) :
        \E i \in 1..(m - 1) : \E n \in (m + 1)..Len(code) :
            code[i] = "import" /\ code[n] = "from" /\ SameLine(code, i, n)}}

(***************************************************************************)
(* The if/else-if chain that categorises one ESM statement.                *)
(***************************************************************************)
ClassifyNamedFirst(code) ==
    IF has_named_exports(code) THEN "named_export"
    ELSE IF is_reexport(code) THEN "reexport"
    ELSE IF ~StartsWith(code, <<"export", "default">>) THEN "import"
    ELSE "skip"

ClassifyNoDefault(code) ==
    IF is_reexport(code) THEN "reexport"
    ELSE IF has_named_exports(code) THEN "named_export"
    ELSE "import"

Classify(code) ==
    IF is_reexport(code) THEN "reexport"
    ELSE IF has_named_exports(code) THEN "named_export"
    ELSE IF ~StartsWith(code, <<"export", "default">>) THEN "import"
    ELSE "skip"

(***************************************************************************)
(* The document tree.  A top-level child is [type, value, nkids]: value is *)
(* the node's text (ESM code, frontmatter body, tag name) and nkids the    *)
(* number of child expressions it holds.                                   *)
(***************************************************************************)
EsmNode(v)  == [type |-> "MdxjsEsm", value |-> v, nkids |-> 0]

EsmValues == {
    <<"import", "X", "from", "./x">>,
    <<"const", "x">>,
    <<"export", "const", "meta">>,
    <<"export", "*", "from", "./a">>,
    <<" ", "export", "default", "Layout", "\n">>,
    <<"export", "default", "Layout", "\n", "export", "const", "m">>,
    <<"import", "Y", "from", "./y", "\n", "export", "default", "Layout">>,
    <<"import", "X", "from", "./x", "\n", "export", "const", "m">> }

ContentNodes == {
    [type |-> "Paragraph", value |-> <<>>, nkids |-> 1],
    [type |-> "Paragraph", value |-> <<"./a.png", "./a.png">>, nkids |-> 2],
    [type |-> "Paragraph", value |-> <<"./b.png">>, nkids |-> 1],
    [type |-> "List", value |-> <<>>, nkids |-> 2],
    [type |-> "MdxJsxFlowElement", value |-> <<"X">>, nkids |-> 0],
    [type |-> "Definition", value |-> <<>>, nkids |-> 0],
    [type |-> "Root", value |-> <<>>, nkids |-> 0] }

\* a delimited frontmatter block: well-formed, malformed, and well-formed
\* YAML whose mapping key is not a string
YamlNodes == {
    [type |-> "Yaml", value |-> <<"title", ":", "Test">>, nkids |-> 0],
    [type |-> "Yaml", value |-> <<"title", ":", "[">>, nkids |-> 0],
    [type |-> "Yaml", value |-> <<"[a]", ":", "b">>, nkids |-> 0] }

ChildNodes == {EsmNode(v) : v \in EsmValues} \cup ContentNodes

RootNode(children) == [type |-> "Root", children |-> children]

\* a tree whose top node is not a root
NonRoot == [type |-> "Paragraph", children |-> <<>>]

\* the parser puts a frontmatter block only at the start of the document
Documents(n) ==
    {RootNode(c) : c \in SeqsUpTo(ChildNodes, n)}
    \cup (IF n = 0 THEN {}
          ELSE {RootNode(<<y>> \o c) : y \in YamlNodes, c \in SeqsUpTo(ChildNodes, n - 1)})

(***************************************************************************)
(* Option and Result values.                                               *)
(***************************************************************************)
None == <<>>
Some(x) == <<x>>

NoResult == [ok |-> FALSE, code |-> <<>>, msg |-> <<>>]
Ok(code) == [ok |-> TRUE, code |-> code, msg |-> <<>>]
Err(msg) == [ok |-> FALSE, code |-> <<>>, msg |-> msg]

(***************************************************************************)
(* crate::frontmatter::extract_frontmatter: only the first top-level child *)
(* is inspected; a well-formed block is removed from the returned copy, a  *)
(* malformed one fails the extraction.                                     *)
(***************************************************************************)
YamlMalformed(body) == body[Len(body)] = "["

YamlParse(body) == <<[key |-> body[1], val |-> body[3]]>>

extract_frontmatter(tree) ==
    IF tree.type = "Root" /\ tree.children # <<>> /\ tree.children[1].type = "Yaml"
    THEN LET body == tree.children[1].value
         IN  IF YamlMalformed(body)
             THEN [err |-> TRUE, msg |-> <<"Failed to parse YAML frontmatter">>,
                   tree |-> tree, fm |-> None]
             ELSE [err |-> FALSE, msg |-> <<>>,
                   tree |-> RootNode(Tail(tree.children)),
                   fm |-> Some([raw |-> body, format |-> "yaml", data |-> YamlParse(body)])]
    ELSE [err |-> FALSE, msg |-> <<>>, tree |-> tree, fm |-> None]

\* serde_json::to_string on the frontmatter data: an object key must be a string
JsonFails(data) == \E i \in 1..Len(data) : data[i].key = "[a]"

RECURSIVE JsonPairs(_)
JsonPairs(data) ==
    IF data = <<>> THEN <<>>
    ELSE <<"\"", data[1].key, "\"", ":", "\"", data[1].val, "\"">>
         \o (IF Len(data) > 1 THEN <<",">> ELSE <<>>) \o JsonPairs(Tail(data))

ToJson(data) == <<"{">> \o JsonPairs(data) \o <<"}">>

(***************************************************************************)
(* Plugins (MdxPlugin): a name, a tree transform and a text transform.     *)
(***************************************************************************)
PluginNames == <<"p1", "p2", "p3", "p4", "p5", "p6">>

PluginKinds == {
    [ast |-> "noop",   jsx |-> "noop"],
    [ast |-> "append", jsx |-> "append"],
    [ast |-> "fail",   jsx |-> "noop"],
    [ast |-> "noop",   jsx |-> "fail"],
    [ast |-> "unroot", jsx |-> "noop"] }

PluginLists(n) ==
    {[i \in 1..Len(ks) |-> [name |-> PluginNames[i], ast |-> ks[i].ast, jsx |-> ks[i].jsx]] :
        ks \in SeqsUpTo(PluginKinds, n)}

\* plugin.transform_ast(&mut tree)
transform_ast(p, tree) ==
    IF p.ast = "fail" THEN [err |-> TRUE, msg |-> <<"ast error of", p.name>>, tree |-> tree]
    ELSE IF p.ast = "append" /\ tree.type = "Root"
    THEN [err |-> FALSE, msg |-> <<>>,
          tree |-> RootNode(Append(tree.children,
                     [type |-> "Paragraph", value |-> <<>>, nkids |-> 1]))]
    ELSE IF p.ast = "unroot" THEN [err |-> FALSE, msg |-> <<>>, tree |-> NonRoot]
    ELSE [err |-> FALSE, msg |-> <<>>, tree |-> tree]

\* plugin.transform_jsx(&mut text)
transform_jsx(p, text) ==
    IF p.jsx = "fail" THEN [err |-> TRUE, msg |-> <<"jsx error of", p.name>>, text |-> text]
    ELSE IF p.jsx = "append"
    THEN [err |-> FALSE, msg |-> <<>>,
          text |-> Append(text, [sec |-> "plugin", text |-> <<"/*", p.name, "*/">>])]
    ELSE [err |-> FALSE, msg |-> <<>>, text |-> text]

(***************************************************************************)
(* CodegenContext and nodes::node_to_jsx.                                  *)
(***************************************************************************)
NewCodegenContext == [imported_components |-> {}, next_key |-> 0, images |-> <<>>]

\* the key attribute made of a counter value
Key(n) == ToString(n)

\* the keys of n consecutive list items, the first drawn at counter value c
RECURSIVE ItemKeys(_, _)
ItemKeys(c, n) == IF n = 0 THEN <<>> ELSE <<Key(c)>> \o ItemKeys(c + 1, n - 1)

\* Result<Option<JsValue>> and the context as the call leaves it: a paragraph
\* or a custom tag emits one call expression, a paragraph records the URLs of
\* the images it holds, a list draws one key per item from the counter, a
\* definition emits nothing, an unexpected node is an error
node_to_jsx(child, c) ==
    IF child.type = "Paragraph"
    THEN [err |-> FALSE,
          val |-> Some([tag |-> "p", component |-> FALSE, nkids |-> child.nkids,
                        keys |-> <<>>]),
          ctx |-> [c EXCEPT !.images = @ \o child.value]]
    ELSE IF child.type = "List"
    THEN [err |-> FALSE,
          val |-> Some([tag |-> "ul", component |-> FALSE, nkids |-> child.nkids,
                        keys |-> ItemKeys(c.next_key, child.nkids)]),
          ctx |-> [c EXCEPT !.next_key = @ + child.nkids]]
    ELSE IF child.type = "MdxJsxFlowElement"
    THEN [err |-> FALSE,
          val |-> Some([tag |-> child.value[1],
                        component |-> child.value[1] \in c.imported_components,
                        nkids |-> child.nkids, keys |-> <<>>]),
          ctx |-> c]
    ELSE IF child.type = "Definition" THEN [err |-> FALSE, val |-> None, ctx |-> c]
    ELSE [err |-> TRUE, val |-> None, ctx |-> c]

\* JsValue::to_js: one child expression is a _jsx call, several are a
\* _jsxs call with a static children array; a component is named directly,
\* any other tag is looked up in _components
to_js(v) ==
    <<(IF v.nkids > 1 THEN "_jsxs" ELSE "_jsx"), "(">>
    \o (IF v.component THEN <<v.tag>> ELSE <<"_components", ".", v.tag>>)
    \o (IF v.nkids > 1
        THEN <<"children", "[">>
             \o Join([i \in 1..Len(v.keys) |-> <<"li", "key", v.keys[i]>>], ",")
             \o <<"]">>
        ELSE <<>>)
    \o <<")">>

(***************************************************************************)
(* Module assembly.                                                        *)
(***************************************************************************)
ContentWrapsSingle(elems) ==
    IF elems = <<>> THEN <<"null">>
    ELSE <<"_jsxs", "(", "_Fragment", "children", "[">> \o Join(elems, ",") \o <<"]", ")">>

\* the body returned by MDXContent
Content(elems) ==
    IF elems = <<>> THEN <<"null">>
    ELSE IF Len(elems) = 1 THEN elems[1]
    ELSE <<"_jsxs", "(", "_Fragment", "children", "[">> \o Join(elems, ",") \o <<"]", ")">>

NeedsFragmentNever(elems) == FALSE

NeedsFragment(elems) == Len(elems) > 1

\* the runtime line is pushed after the user's imports
AppendRuntimeImport(imps, line) == Append(imps, line)

\* line 139: imports.insert(0, jsx_runtime)
InsertRuntimeImport(imps, line) == <<line>> \o imps

RuntimeImport(needs_fragment, jsx_runtime) ==
    IF needs_fragment
    THEN <<"import", "_jsx", "_jsxs", "_Fragment", "from", jsx_runtime>>
    ELSE <<"import", "_jsx", "_jsxs", "from", jsx_runtime>>

FrontmatterExport(json) == <<"export", "const", "frontmatter", "=">> \o json

PushFrontFrontmatter(named, json) == <<FrontmatterExport(json)>> \o named

PushFrontmatter(named, json) == Append(named, FrontmatterExport(json))

DefaultExport(content) ==
    <<"export", "default", "function", "MDXContent", "return">> \o content

\* Vec::push of one classified statement
PushStatementFront(bucket, code) == <<code>> \o bucket

PushStatement(bucket, code) == Append(bucket, code)

\* with_context of the two plugin loops
UnwrappedError(name, inner) == Err(inner)

PluginAstError(name, inner) ==
    Err(<<"Plugin", name, "failed during AST transformation">> \o inner)

PluginJsxError(name, inner) ==
    Err(<<"Plugin", name, "failed during JSX transformation">> \o inner)

Entries(sec, texts) == [i \in 1..Len(texts) |-> [sec |-> sec, text |-> texts[i]]]

Blank == [sec |-> "blank", text |-> <<"\n", "\n">>]

BuildOutputReexportsFirst(imps, named, content, reexp) ==
    (IF imps # <<>> THEN Entries("import", imps) \o <<Blank>> ELSE <<>>)
    \o (IF named # <<>> THEN Entries("named_export", named) \o <<Blank>> ELSE <<>>)
    \o (IF reexp # <<>> THEN Entries("reexport", reexp) \o <<Blank>> ELSE <<>>)
    \o <<[sec |-> "default_export", text |-> DefaultExport(content)]>>

BuildOutput(imps, named, content, reexp) ==
    (IF imps # <<>> THEN Entries("import", imps) \o <<Blank>> ELSE <<>>)
    \o (IF named # <<>> THEN Entries("named_export", named) \o <<Blank>> ELSE <<>>)
    \o <<[sec |-> "default_export", text |-> DefaultExport(content)]>>
    \o (IF reexp # <<>> THEN <<Blank>> \o Entries("reexport", reexp) ELSE <<>>)

(***************************************************************************)
(* The compile: mdast_to_jsx_with_options(root, options).                  *)
(***************************************************************************)
JsxRuntimes == {"react/jsx-runtime", "preact/jsx-runtime"}

\* no adapter has returned; no second compile exists
NoHost == [adapter |-> "none"]
NoCompile == [pc |-> "none"]

Init ==
    /\ \E n \in 0..MaxInput :
        /\ root \in Documents(n) \cup {NonRoot}
        /\ \E ps \in PluginLists(MaxInput - n), rt \in JsxRuntimes :
               options = [plugins |-> ps, jsx_runtime |-> rt]
    /\ pc = "extract"
    /\ cleaned_root = root
    /\ frontmatter = None
    /\ k = 1
    /\ idx = 1
    /\ imports = <<>>
    /\ named_exports = <<>>
    /\ reexports = <<>>
    /\ jsx_elements = <<>>
    /\ ctx = NewCodegenContext
    /\ output = <<>>
    /\ result = NoResult
    /\ log = <<>>
    /\ host = NoHost
    /\ other = NoCompile

NumPlugins == Len(options.plugins)

AstPluginAt(i) == options.plugins[i]

JsxPluginReversed(i) == options.plugins[NumPlugins + 1 - i]

JsxPluginAt(i) == options.plugins[i]

\* the frontmatter block is removed from the caller's tree itself
ExtractFrontmatterInPlace ==
    /\ pc = "extract"
    /\ LET r == extract_frontmatter(root)
       IN  IF r.err
           THEN /\ result' = Err(r.msg)
                /\ pc' = "done"
                /\ UNCHANGED <<root, cleaned_root, frontmatter>>
           ELSE /\ root' = r.tree
                /\ cleaned_root' = r.tree
                /\ frontmatter' = r.fm
                /\ pc' = "ast"
                /\ UNCHANGED result
    /\ k' = 1
    /\ UNCHANGED <<host, other, options, idx, imports, named_exports, reexports,
                   jsx_elements, ctx, output, log>>

\* line 36: let (mut cleaned_root, frontmatter) = extract_frontmatter(root)?
ExtractFrontmatter ==
    /\ pc = "extract"
    /\ LET r == extract_frontmatter(root)
       IN  IF r.err
           THEN /\ result' = Err(r.msg)
                /\ pc' = "done"
                /\ UNCHANGED <<cleaned_root, frontmatter>>
           ELSE /\ cleaned_root' = r.tree
                /\ frontmatter' = r.fm
                /\ pc' = "ast"
                /\ UNCHANGED result
    /\ k' = 1
    /\ UNCHANGED <<host, other, root, options, idx, imports, named_exports, reexports,
                   jsx_elements, ctx, output, log>>

\* lines 39-47: one iteration of the AST plugin loop
TransformAst ==
    /\ pc = "ast"
    /\ k <= NumPlugins
    /\ LET p == AstPluginAt(k)
           r == transform_ast(p, cleaned_root)
       IN  /\ log' = Append(log, [phase |-> "ast", plugin |-> p.name, ok |-> ~r.err,
                                  tree_in |-> cleaned_root, tree_out |-> r.tree,
                                  text_in |-> <<>>, text_out |-> <<>>])
           /\ cleaned_root' = r.tree
           /\ IF r.err
              THEN /\ result' = PluginAstError(p.name, r.msg)
                   /\ pc' = "done"
                   /\ k' = k
              ELSE /\ k' = k + 1
                   /\ UNCHANGED <<result, pc>>
    /\ UNCHANGED <<host, other, root, options, frontmatter, idx, imports, named_exports,
                   reexports, jsx_elements, ctx, output>>

\* the generation starting while tree transforms are still to run
NewContextEarly ==
    /\ pc = "ast"
    /\ cleaned_root.type = "Root"
    /\ imports' = <<>>
    /\ named_exports' = <<>>
    /\ reexports' = <<>>
    /\ jsx_elements' = <<>>
    /\ ctx' = NewCodegenContext
    /\ idx' = 1
    /\ pc' = "children"
    /\ UNCHANGED <<host, other, root, options, cleaned_root, frontmatter, k, output, result, log>>

\* lines 49-53 and 66: the buckets and the context are created, the tree is a root
NewContext ==
    /\ pc = "ast"
    /\ k > NumPlugins
    /\ cleaned_root.type = "Root"
    /\ imports' = <<>>
    /\ named_exports' = <<>>
    /\ reexports' = <<>>
    /\ jsx_elements' = <<>>
    /\ ctx' = NewCodegenContext
    /\ idx' = 1
    /\ pc' = "children"
    /\ UNCHANGED <<host, other, root, options, cleaned_root, frontmatter, k, output, result, log>>

\* a tree that is not a root is taken as a document without children
ExpectedRootLenient ==
    /\ pc = "ast"
    /\ k > NumPlugins
    /\ cleaned_root.type # "Root"
    /\ pc' = "assemble"
    /\ UNCHANGED <<host, other, root, options, cleaned_root, frontmatter, k, idx, imports,
                   named_exports, reexports, jsx_elements, ctx, output, result, log>>

\* lines 97-99: the tree is not a root
ExpectedRoot ==
    /\ pc = "ast"
    /\ k > NumPlugins
    /\ cleaned_root.type # "Root"
    /\ result' = Err(<<"Expected Root node, got", cleaned_root.type>>)
    /\ pc' = "done"
    /\ UNCHANGED <<host, other, root, options, cleaned_root, frontmatter, k, idx, imports,
                   named_exports, reexports, jsx_elements, ctx, output, log>>

ImportedNamesAnyBucket(bucket, code) == extract_imported_names(code)

\* lines 84-85: only a statement that falls to the import branch adds names
ImportedNames(bucket, code) ==
    IF bucket = "import" THEN extract_imported_names(code) ELSE {}

\* lines 69-88: one iteration of the loop over the children, an ESM statement
ClassifyEsm ==
    /\ pc = "children"
    /\ idx <= Len(cleaned_root.children)
    /\ cleaned_root.children[idx].type = "MdxjsEsm"
    /\ LET code == Trim(cleaned_root.children[idx].value)
           bucket == Classify(code)
       IN  /\ reexports' = IF bucket = "reexport"
                         THEN PushStatement(reexports, code) ELSE reexports
           /\ named_exports' = IF bucket = "named_export"
                               THEN PushStatement(named_exports, code) ELSE named_exports
           /\ imports' = IF bucket = "import"
                       THEN PushStatement(imports, code) ELSE imports
           /\ ctx' = [ctx EXCEPT !.imported_components =
                                    @ \cup ImportedNames(bucket, code)]
    /\ idx' = idx + 1
    /\ UNCHANGED <<host, other, root, options, pc, cleaned_root, frontmatter, k, jsx_elements,
                   output, result, log>>

\* the names of every import of the document, as a classification pass
\* that ran before the conversion would have left them
AllImportedNames ==
    UNION {ImportedNames(Classify(Trim(cleaned_root.children[j].value)),
                         Trim(cleaned_root.children[j].value)) :
              j \in {m \in 1..Len(cleaned_root.children) :
                        cleaned_root.children[m].type = "MdxjsEsm"}}

ConvertNodeAfterClassification ==
    /\ pc = "children"
    /\ idx <= Len(cleaned_root.children)
    /\ cleaned_root.children[idx].type # "MdxjsEsm"
    /\ LET r == node_to_jsx(cleaned_root.children[idx],
                            [ctx EXCEPT !.imported_components = AllImportedNames])
       IN  IF r.err
           THEN /\ result' = Err(<<"Unexpected node", cleaned_root.children[idx].type>>)
                /\ pc' = "done"
                /\ UNCHANGED <<jsx_elements, idx, ctx>>
           ELSE /\ jsx_elements' = IF r.val # None
                                   THEN Append(jsx_elements, to_js(r.val[1]))
                                   ELSE jsx_elements
                /\ ctx' = [r.ctx EXCEPT !.imported_components = ctx.imported_components]
                /\ idx' = idx + 1
                /\ UNCHANGED <<result, pc>>
    /\ UNCHANGED <<host, other, root, options, cleaned_root, frontmatter, k, imports,
                   named_exports, reexports, output, log>>

\* the context handed to node_to_jsx by value: what the call did to it is lost
ConvertNodeByValue ==
    /\ pc = "children"
    /\ idx <= Len(cleaned_root.children)
    /\ cleaned_root.children[idx].type # "MdxjsEsm"
    /\ LET r == node_to_jsx(cleaned_root.children[idx], ctx)
       IN  IF r.err
           THEN /\ result' = Err(<<"Unexpected node", cleaned_root.children[idx].type>>)
                /\ pc' = "done"
                /\ UNCHANGED <<jsx_elements, idx>>
           ELSE /\ jsx_elements' = IF r.val # None
                                   THEN Append(jsx_elements, to_js(r.val[1]))
                                   ELSE jsx_elements
                /\ idx' = idx + 1
                /\ UNCHANGED <<result, pc>>
    /\ UNCHANGED <<host, other, root, options, cleaned_root, frontmatter, k, imports,
                   named_exports, reexports, ctx, output, log>>

\* a node that cannot be converted is skipped and the loop goes on
ConvertNodeSwallow ==
    /\ pc = "children"
    /\ idx <= Len(cleaned_root.children)
    /\ cleaned_root.children[idx].type # "MdxjsEsm"
    /\ LET r == node_to_jsx(cleaned_root.children[idx], ctx)
       IN  /\ jsx_elements' = IF ~r.err /\ r.val # None
                               THEN Append(jsx_elements, to_js(r.val[1]))
                               ELSE jsx_elements
           /\ ctx' = r.ctx
    /\ idx' = idx + 1
    /\ UNCHANGED <<host, other, root, options, pc, cleaned_root, frontmatter, k, imports,
                   named_exports, reexports, output, result, log>>

\* lines 89-94: one iteration of the loop over the children, a content node
ConvertNode ==
    /\ pc = "children"
    /\ idx <= Len(cleaned_root.children)
    /\ cleaned_root.children[idx].type # "MdxjsEsm"
    /\ LET r == node_to_jsx(cleaned_root.children[idx], ctx)
       IN  IF r.err
           THEN /\ result' = Err(<<"Unexpected node", cleaned_root.children[idx].type>>)
                /\ pc' = "done"
                /\ UNCHANGED <<jsx_elements, idx, ctx>>
           ELSE /\ jsx_elements' = IF r.val # None
                                   THEN Append(jsx_elements, to_js(r.val[1]))
                                   ELSE jsx_elements
                /\ ctx' = r.ctx
                /\ idx' = idx + 1
                /\ UNCHANGED <<result, pc>>
    /\ UNCHANGED <<host, other, root, options, cleaned_root, frontmatter, k, imports,
                   named_exports, reexports, output, log>>

\* lines 101-108: the frontmatter export, after the loop
AddFrontmatterExport ==
    /\ pc = "children"
    /\ idx > Len(cleaned_root.children)
    /\ IF frontmatter = None
       THEN /\ pc' = "assemble"
            /\ UNCHANGED <<named_exports, result>>
       ELSE IF JsonFails(frontmatter[1].data)
       THEN /\ result' = Err(<<"Failed to serialize frontmatter to JSON">>)
            /\ pc' = "done"
            /\ UNCHANGED named_exports
       ELSE /\ named_exports' = PushFrontmatter(named_exports, ToJson(frontmatter[1].data))
            /\ pc' = "assemble"
            /\ UNCHANGED result
    /\ UNCHANGED <<host, other, root, options, cleaned_root, frontmatter, k, idx, imports,
                   reexports, jsx_elements, ctx, output, log>>

\* lines 110-187: the content, the runtime import and the module text
Assemble ==
    /\ pc = "assemble"
    /\ imports' = InsertRuntimeImport(imports,
                      RuntimeImport(NeedsFragment(jsx_elements), options.jsx_runtime))
    /\ output' = BuildOutput(imports', named_exports, Content(jsx_elements), reexports)
    /\ k' = 1
    /\ pc' = "jsx"
    /\ UNCHANGED <<host, other, root, options, cleaned_root, frontmatter, idx, named_exports,
                   reexports, jsx_elements, ctx, result, log>>

\* lines 190-198: one iteration of the JSX plugin loop
TransformJsx ==
    /\ pc = "jsx"
    /\ k <= NumPlugins
    /\ LET p == JsxPluginAt(k)
           r == transform_jsx(p, output)
       IN  /\ log' = Append(log, [phase |-> "jsx", plugin |-> p.name, ok |-> ~r.err,
                                  tree_in |-> NonRoot, tree_out |-> NonRoot,
                                  text_in |-> output, text_out |-> r.text])
           /\ output' = r.text
           /\ IF r.err
              THEN /\ result' = PluginJsxError(p.name, r.msg)
                   /\ pc' = "done"
                   /\ k' = k
              ELSE /\ k' = k + 1
                   /\ UNCHANGED <<result, pc>>
    /\ UNCHANGED <<host, other, root, options, cleaned_root, frontmatter, idx, imports,
                   named_exports, reexports, jsx_elements, ctx>>

\* line 200: Ok(output)
ReturnOk ==
    /\ pc = "jsx"
    /\ k > NumPlugins
    /\ result' = Ok(output)
    /\ pc' = "done"
    /\ UNCHANGED <<host, other, root, options, cleaned_root, frontmatter, k, idx, imports,
                   named_exports, reexports, jsx_elements, ctx, output, log>>

mdast_to_jsx_with_options ==
    \/ ExtractFrontmatter
    \/ TransformAst
    \/ NewContext
    \/ ExpectedRoot
    \/ ClassifyEsm
    \/ ConvertNode
    \/ AddFrontmatterExport
    \/ Assemble
    \/ TransformJsx
    \/ ReturnOk

(***************************************************************************)
(* bunny_mdx::compile as the host adapters see it: the module text with    *)
(* the manifest, or an MdxError.                                           *)
(***************************************************************************)
CoreResult ==
    [code |-> result.code, frontmatter |-> frontmatter, images |-> ctx.images,
     named_exports |-> named_exports, reexports |-> reexports, imports |-> imports]

\* the optional fields of an MdxError
Diagnostics == {
    [file |-> None, line |-> None, column |-> None, context |-> None, suggestion |-> None],
    [file |-> Some("a.mdx"), line |-> None, column |-> None, context |-> None,
     suggestion |-> None],
    [file |-> Some("a.mdx"), line |-> Some(3), column |-> Some(7), context |-> None,
     suggestion |-> None],
    [file |-> None, line |-> Some(3), column |-> None, context |-> Some("> 3 | <X"),
     suggestion |-> None],
    [file |-> Some("a.mdx"), line |-> Some(3), column |-> Some(7),
     context |-> Some("> 3 | <X"), suggestion |-> Some("close the tag")] }

MdxError(message, d) ==
    [message |-> message, file |-> d.file, line |-> d.line, column |-> d.column,
     context |-> d.context, suggestion |-> d.suggestion]

(***************************************************************************)
(* bunny-wasm: compile, convert_result, convert_error.                     *)
(***************************************************************************)
\* js_sys::Object::new()
NewObject == [n \in {} |-> None]

\* js_sys::Reflect::set(obj, key, value)
ReflectSet(obj, key, value) ==
    [n \in DOMAIN obj \cup {key} |-> IF n = key THEN value ELSE obj[n]]

\* `n as f64` of a line or column number, exact below 2^53
AsF64(n) == n

SetIfSome(obj, key, field) ==
    IF field # None THEN ReflectSet(obj, key, field[1]) ELSE obj

SetNumberIfSome(obj, key, field) ==
    IF field # None THEN ReflectSet(obj, key, AsF64(field[1])) ELSE obj

\* the properties of obj copied onto the error object, one key at a time
RECURSIVE CopyKeys(_, _, _)
CopyKeys(error_obj, obj, keys) ==
    IF keys = {} THEN error_obj
    ELSE LET key == CHOOSE x \in keys : TRUE
         IN  CopyKeys(ReflectSet(error_obj, key, obj[key]), obj, keys \ {key})

convert_error_no_suggestion(error) ==
    LET o1 == ReflectSet(NewObject, "message", error.message)
        o2 == SetIfSome(o1, "file", error.file)
        o3 == SetNumberIfSome(o2, "line", error.line)
        o4 == SetNumberIfSome(o3, "column", error.column)
        o5 == SetIfSome(o4, "context", error.context)
        js_error == ReflectSet(NewObject, "message", error.message)
    IN  CopyKeys(js_error, o5, DOMAIN o5)

\* lines 315-364
convert_error(error) ==
    LET o1 == ReflectSet(NewObject, "message", error.message)
        o2 == SetIfSome(o1, "file", error.file)
        o3 == SetNumberIfSome(o2, "line", error.line)
        o4 == SetNumberIfSome(o3, "column", error.column)
        o5 == SetIfSome(o4, "context", error.context)
        o6 == SetIfSome(o5, "suggestion", error.suggestion)
        js_error == ReflectSet(NewObject, "message", error.message)
    IN  CopyKeys(js_error, o6, DOMAIN o6)

\* the first occurrence of each element, in order
RECURSIVE Dedup(_)
Dedup(seq) ==
    IF seq = <<>> THEN <<>>
    ELSE <<seq[1]>> \o Dedup(SelectSeq(Tail(seq), LAMBDA x : x # seq[1]))

convert_result_dedup(r) ==
    [code |-> r.code,
     frontmatter |-> IF r.frontmatter = None THEN None
                     ELSE Some(IF JsonFails(r.frontmatter[1].data) THEN <<"null">>
                               ELSE ToJson(r.frontmatter[1].data)),
     frontmatter_format |-> IF r.frontmatter = None THEN None
                            ELSE Some(r.frontmatter[1].format),
     images |-> Dedup(r.images), named_exports |-> r.named_exports,
     reexports |-> r.reexports, imports |-> r.imports]

\* lines 274-299
convert_result(r) ==
    [code |-> r.code,
     frontmatter |-> IF r.frontmatter = None THEN None
                     ELSE Some(IF JsonFails(r.frontmatter[1].data) THEN <<"null">>
                               ELSE ToJson(r.frontmatter[1].data)),
     frontmatter_format |-> IF r.frontmatter = None THEN None
                            ELSE Some(r.frontmatter[1].format),
     images |-> r.images, named_exports |-> r.named_exports,
     reexports |-> r.reexports, imports |-> r.imports]

\* lines 225-268: compile(source, options)
WasmCompile ==
    /\ pc = "done"
    /\ IF result.ok
       THEN host' = [adapter |-> "wasm", ok |-> TRUE, core |-> CoreResult,
                     value |-> convert_result(CoreResult)]
       ELSE \E d \in Diagnostics :
                host' = [adapter |-> "wasm", ok |-> FALSE, core |-> MdxError(result.msg, d),
                         value |-> convert_error(MdxError(result.msg, d))]
    /\ pc' = "returned"
    /\ UNCHANGED <<other, root, options, cleaned_root, frontmatter, k, idx, imports,
                   named_exports, reexports, jsx_elements, ctx, output, result, log>>

(***************************************************************************)
(* bunny-mdx-node: compile.                                                *)
(***************************************************************************)
\* lines 121-138
NodeCompileResult(r) ==
    [code |-> r.code,
     frontmatter |-> IF r.frontmatter = None THEN None
                     ELSE Some([raw |-> r.frontmatter[1].raw,
                                data |-> IF JsonFails(r.frontmatter[1].data) THEN <<"{}">>
                                         ELSE ToJson(r.frontmatter[1].data)]),
     images |-> r.images, named_exports |-> r.named_exports,
     reexports |-> r.reexports, imports |-> r.imports]

\* lines 88-139: compile(source, options)
NodeCompile ==
    /\ pc = "done"
    /\ IF result.ok
       THEN host' = [adapter |-> "node", ok |-> TRUE, core |-> CoreResult,
                     value |-> NodeCompileResult(CoreResult)]
       ELSE host' = [adapter |-> "node", ok |-> FALSE, core |-> result.msg,
                     value |-> <<"MDX compilation failed:">> \o result.msg]
    /\ pc' = "returned"
    /\ UNCHANGED <<other, root, options, cleaned_root, frontmatter, k, idx, imports,
                   named_exports, reexports, jsx_elements, ctx, output, result, log>>

(***************************************************************************)
(* bunny: bundle_mdx, up to the call of the bundler.                       *)
(***************************************************************************)
EntryPath == "__mdx_entry__.jsx"

FilePaths == {EntryPath, "./Button.jsx"}

FileContents == { <<[sec |-> "file", text |-> <<"export", "default", "Button">>]>> }

\* the caller's BundleMdxOptions.files: HashMap<String, String>
FileMaps == UNION {[P -> FileContents] : P \in SUBSET FilePaths}

\* HashMap::insert
Insert(map, path, content) ==
    [q \in DOMAIN map \cup {path} |-> IF q = path THEN content ELSE map[q]]

\* for (path, content) in options.files { virtual_files.insert(path, content) }
RECURSIVE InsertAll(_, _, _)
InsertAll(map, files, paths) ==
    IF paths = {} THEN map
    ELSE LET path == CHOOSE x \in paths : TRUE
         IN  InsertAll(Insert(map, path, files[path]), files, paths \ {path})

\* mod.rs lines 94-126
BundleMdx ==
    /\ pc = "done"
    /\ \E files \in FileMaps :
        IF result.ok
        THEN LET entry == Insert(NewObject, EntryPath, CoreResult.code)
             IN  host' = [adapter |-> "bundle", ok |-> TRUE, core |-> CoreResult,
                          files |-> files,
                          value |-> [entry |-> EntryPath,
                                     virtual_files |-> InsertAll(entry, files, DOMAIN files)]]
        ELSE host' = [adapter |-> "bundle", ok |-> FALSE, core |-> result.msg,
                      files |-> files,
                      value |-> <<"Failed to compile MDX to JSX">> \o result.msg]
    /\ pc' = "returned"
    /\ UNCHANGED <<other, root, options, cleaned_root, frontmatter, k, idx, imports,
                   named_exports, reexports, jsx_elements, ctx, output, result, log>>
Next ==
    \/ mdast_to_jsx_with_options
    \/ WasmCompile
    \/ NodeCompile
    \/ BundleMdx

Spec == Init /\ [][Next]_vars

(***************************************************************************)
(* Two compiles on threads of one process.  Every variable above but       *)
(* options and host is a local of one call of mdast_to_jsx_with_options    *)
(* (lines 36-53: let bindings on the stack of the call), so the thread     *)
(* that is not running keeps its own values of them in `other`; options    *)
(* is the one value both calls borrow.  The scheduler may switch threads   *)
(* between any two steps.                                                  *)
(***************************************************************************)
MaxConc == 2    \* top-level children of each tree of the two compiles

ConcChildren == {
    EsmNode(<<"import", "X", "from", "./x">>),
    [type |-> "MdxJsxFlowElement", value |-> <<"X">>, nkids |-> 0],
    [type |-> "List", value |-> <<>>, nkids |-> 2],
    [type |-> "Paragraph", value |-> <<"./a.png", "./a.png">>, nkids |-> 2] }

ConcDocuments == {RootNode(c) : c \in SeqsUpTo(ConcChildren, MaxConc)} \cup {NonRoot}

ConcPluginLists ==
    {<<>>, <<[name |-> PluginNames[1], ast |-> "append", jsx |-> "append"]>>}

\* the locals of a call that has not run yet
FreshLocals(tree) ==
    [root |-> tree, pc |-> "extract", cleaned_root |-> tree, frontmatter |-> None,
     k |-> 1, idx |-> 1, imports |-> <<>>, named_exports |-> <<>>, reexports |-> <<>>,
     jsx_elements |-> <<>>, ctx |-> NewCodegenContext, output |-> <<>>,
     result |-> NoResult, log |-> <<>>]

\* the locals of the running call
Locals ==
    [root |-> root, pc |-> pc, cleaned_root |-> cleaned_root, frontmatter |-> frontmatter,
     k |-> k, idx |-> idx, imports |-> imports, named_exports |-> named_exports,
     reexports |-> reexports, jsx_elements |-> jsx_elements, ctx |-> ctx,
     output |-> output, result |-> result, log |-> log]

InitConc ==
    /\ options \in [plugins : ConcPluginLists, jsx_runtime : {"react/jsx-runtime"}]
    /\ root \in ConcDocuments
    /\ \E tree \in ConcDocuments : other = FreshLocals(tree)
    /\ pc = "extract"
    /\ cleaned_root = root
    /\ frontmatter = None
    /\ k = 1
    /\ idx = 1
    /\ imports = <<>>
    /\ named_exports = <<>>
    /\ reexports = <<>>
    /\ jsx_elements = <<>>
    /\ ctx = NewCodegenContext
    /\ output = <<>>
    /\ result = NoResult
    /\ log = <<>>
    /\ host = NoHost

\* the context is one value that both calls use
SwitchSharedContext ==
    /\ other.pc # "none"
    /\ other' = Locals
    /\ root' = other.root
    /\ pc' = other.pc
    /\ cleaned_root' = other.cleaned_root
    /\ frontmatter' = other.frontmatter
    /\ k' = other.k
    /\ idx' = other.idx
    /\ imports' = other.imports
    /\ named_exports' = other.named_exports
    /\ reexports' = other.reexports
    /\ jsx_elements' = other.jsx_elements
    /\ output' = other.output
    /\ result' = other.result
    /\ log' = other.log
    /\ UNCHANGED <<options, host, ctx>>

\* the import bucket is one vector that both calls push to
SwitchSharedBuckets ==
    /\ other.pc # "none"
    /\ other' = Locals
    /\ root' = other.root
    /\ pc' = other.pc
    /\ cleaned_root' = other.cleaned_root
    /\ frontmatter' = other.frontmatter
    /\ k' = other.k
    /\ idx' = other.idx
    /\ named_exports' = other.named_exports
    /\ reexports' = other.reexports
    /\ jsx_elements' = other.jsx_elements
    /\ ctx' = other.ctx
    /\ output' = other.output
    /\ result' = other.result
    /\ log' = other.log
    /\ UNCHANGED <<options, host, imports>>

\* the running call is suspended and the other one resumed, each with its
\* own locals
Switch ==
    /\ other.pc # "none"
    /\ other' = Locals
    /\ root' = other.root
    /\ pc' = other.pc
    /\ cleaned_root' = other.cleaned_root
    /\ frontmatter' = other.frontmatter
    /\ k' = other.k
    /\ idx' = other.idx
    /\ imports' = other.imports
    /\ named_exports' = other.named_exports
    /\ reexports' = other.reexports
    /\ jsx_elements' = other.jsx_elements
    /\ ctx' = other.ctx
    /\ output' = other.output
    /\ result' = other.result
    /\ log' = other.log
    /\ UNCHANGED <<options, host>>

NextConc ==
    \/ mdast_to_jsx_with_options
    \/ Switch

SpecConc == InitConc /\ [][NextConc]_vars

(***************************************************************************)
(* Properties of the assembled module.                                     *)
(***************************************************************************)
\* the compile has returned, to its caller or through a host adapter
Finished == pc \in {"done", "returned"}

\* the module is assembled and no text transform has run yet
Assembled == pc = "jsx" /\ k = 1

Statements(out) == SelectSeq(out, LAMBDA e : e.sec # "blank")

IsEsm(n) == n.type = "MdxjsEsm"

IsSynthesizedDefault(text) ==
    StartsWith(text, <<"export", "default", "function", "MDXContent">>)

\* what a line of the module is, read off its text alone
TextKind(text) ==
    IF IsSynthesizedDefault(text) THEN "default_export"
    ELSE IF is_reexport(text) THEN "reexport"
    ELSE IF has_named_exports(text) THEN "named_export"
    ELSE IF StartsWith(text, <<"export", "default">>) THEN "default_export"
    ELSE "import"

SectionRank(kind) ==
    CASE kind = "import" -> 1
      [] kind = "named_export" -> 2
      [] kind = "default_export" -> 3
      [] kind = "reexport" -> 4

CodesOf(children, bucket) ==
    LET esm == SelectSeq(children, LAMBDA n : IsEsm(n) /\ TextKind(Trim(n.value)) = bucket)
    IN  [i \in 1..Len(esm) |-> Trim(esm[i].value)]

TextsIn(out, sec) ==
    LET es == SelectSeq(out, LAMBDA e : e.sec = sec)
    IN  [i \in 1..Len(es) |-> es[i].text]

UserNamedExports(texts) ==
    SelectSeq(texts, LAMBDA t : ~StartsWith(t, <<"export", "const", "frontmatter">>))

Classified ==
    IF pc \in {"children", "assemble"}
    THEN {Trim(cleaned_root.children[i].value) :
              i \in {j \in 1..(idx - 1) : IsEsm(cleaned_root.children[j])}}
    ELSE {}

\* C3: a statement that passes the re-export check is in the re-exports
\* bucket even if it passes the named-export check too, and a statement
\* that passes the named-export check (and not the re-export check) is in
\* the named-exports bucket even if it starts with "export default".
C3_CheckOrder ==
    \A code \in Classified :
        /\ is_reexport(code) =>
               /\ code \in Range(reexports)
               /\ code \notin Range(named_exports) \cup Range(imports)
        /\ (~is_reexport(code) /\ has_named_exports(code)) =>
               /\ code \in Range(named_exports)
               /\ code \notin Range(reexports) \cup Range(imports)

C3_Witness ==
    /\ \E code \in Classified :
           is_reexport(code) /\ has_named_exports(code) /\ code \in Range(reexports)
    /\ \E code \in Classified :
           /\ has_named_exports(code) /\ StartsWith(code, <<"export", "default">>)
           /\ code \in Range(named_exports)

Occurrences(seq, x) == Cardinality({i \in 1..Len(seq) : seq[i] = x})

ClassifiedAt(code) ==
    Cardinality({j \in 1..(idx - 1) : /\ IsEsm(cleaned_root.children[j])
                                      /\ Trim(cleaned_root.children[j].value) = code})

Suppressed(code) ==
    /\ StartsWith(code, <<"export", "default">>)
    /\ ~is_reexport(code)
    /\ ~has_named_exports(code)

\* C4: every classified ESM node has exactly one outcome: each text is in
\* the buckets once per node that carries it, or in none when it is a
\* suppressed default export, and a text that passes none of the export
\* checks is in the imports bucket.
C4_ExclusiveClassification ==
    \A code \in Classified :
        /\ Occurrences(imports, code) + Occurrences(named_exports, code)
               + Occurrences(reexports, code)
               = IF Suppressed(code) THEN 0 ELSE ClassifiedAt(code)
        /\ Cardinality({b \in {imports, named_exports, reexports} : code \in Range(b)}) <= 1
        /\ (~is_reexport(code) /\ ~has_named_exports(code)
                /\ ~StartsWith(code, <<"export", "default">>)) => code \in Range(imports)

C4_Witness ==
    /\ pc = "assemble"
    /\ \E code \in Classified : Suppressed(code)
    /\ \E code \in Classified : code = <<"const", "x">> /\ code \in Range(imports)
    /\ \E code \in Classified : code \in Range(named_exports)

\* the default-export statements of a module text
DefaultExportCount(out) ==
    Cardinality({<<e, i>> \in (1..Len(out)) \X (1..8) :
        /\ i < Len(out[e].text)
        /\ out[e].text[i] = "export"
        /\ out[e].text[i + 1] = "default"})

\* C5: the document's own default export is suppressed, so the assembled
\* module holds exactly one default export, the synthesized MDXContent.
C5_SingleDefaultExport ==
    Assembled => DefaultExportCount(output) = 1

\* the names bound by the plain imports among the children before position i
ImportedBefore(i) ==
    UNION {extract_imported_names(Trim(cleaned_root.children[j].value)) :
              j \in {m \in 1..(i - 1) :
                        /\ IsEsm(cleaned_root.children[m])
                        /\ TextKind(Trim(cleaned_root.children[m].value)) = "import"}}

Emits(n) == ~IsEsm(n) /\ node_to_jsx(n, NewCodegenContext).val # None

\* the keys drawn by the nodes before position i
RECURSIVE KeysBefore(_)
KeysBefore(i) ==
    IF i <= 1 THEN 0
    ELSE KeysBefore(i - 1)
         + (IF cleaned_root.children[i - 1].type = "List"
            THEN cleaned_root.children[i - 1].nkids ELSE 0)

\* the expressions of the content nodes from position i on, in document order
RECURSIVE EmittedFrom(_)
EmittedFrom(i) ==
    IF i > Len(cleaned_root.children) THEN <<>>
    ELSE (IF Emits(cleaned_root.children[i])
          THEN <<to_js(node_to_jsx(cleaned_root.children[i],
                     [imported_components |-> ImportedBefore(i),
                      next_key |-> KeysBefore(i), images |-> <<>>]).val[1])>>
          ELSE <<>>)
         \o EmittedFrom(i + 1)

\* the text after "return" in the synthesized default export
Body ==
    LET d == SelectSeq(output, LAMBDA e : IsSynthesizedDefault(e.text))
    IN  SubSeq(d[1].text, 6, Len(d[1].text))

RECURSIVE CommaList(_)
CommaList(es) ==
    IF es = <<>> THEN <<>>
    ELSE es[1] \o (IF Len(es) > 1 THEN <<",">> ELSE <<>>) \o CommaList(Tail(es))

BodyFor(n, es) ==
    /\ n = 0 => Body = <<"null">>
    /\ n = 1 => Len(es) = 1 /\ Body = es[1]
    /\ n >= 2 => Body = <<"_jsxs", "(", "_Fragment", "children", "[">>
                        \o CommaList(es) \o <<"]", ")">>

ContentNodeCount == Cardinality({i \in 1..Len(cleaned_root.children) :
                                     ~IsEsm(cleaned_root.children[i])})

\* C6 as stated: the body is null, the single expression or the fragment
\* list according to the number of top-level content nodes.
C6_BodyByContentNodes ==
    Assembled => BodyFor(ContentNodeCount, EmittedFrom(1))

\* C6 as amended: the body is null, the single expression or the fragment
\* list, in document order, according to the number of top-level content
\* nodes that emit an expression.
C6_BodyByExpressions ==
    Assembled => BodyFor(Len(EmittedFrom(1)), EmittedFrom(1))

C6_Witness ==
    /\ Assembled
    /\ ContentNodeCount = 3
    /\ Len(EmittedFrom(1)) = 2
    /\ StartsWith(Body, <<"_jsxs", "(", "_Fragment">>)

FrontmatterExports(out) ==
    {i \in 1..Len(out) : StartsWith(out[i].text, <<"export", "const", "frontmatter", "=">>)}

HasFrontmatterBlock ==
    /\ root.type = "Root"
    /\ root.children # <<>>
    /\ root.children[1].type = "Yaml"

\* C8: with frontmatter the assembled module holds exactly one export of
\* the frontmatter data, after every user-declared named export and before
\* the default export; without frontmatter it holds none.
C8_FrontmatterExport ==
    Assembled =>
        LET m == Statements(output)
            fm == FrontmatterExports(m)
        IN  IF HasFrontmatterBlock
            THEN /\ Cardinality(fm) = 1
                 /\ \A i \in fm :
                     /\ root.children[1].value = <<"title", ":", "Test">> =>
                            m[i].text = <<"export", "const", "frontmatter", "=",
                                          "{", "\"", "title", "\"", ":", "\"", "Test", "\"", "}">>
                     /\ \A j \in 1..Len(m) :
                         /\ (TextKind(m[j].text) = "named_export" /\ j # i) => j < i
                         /\ IsSynthesizedDefault(m[j].text) => i < j
            ELSE fm = {}

C8_Witness ==
    /\ Assembled
    /\ HasFrontmatterBlock
    /\ Len(named_exports) = 3

(***************************************************************************)
(* Properties of the plugin pipeline.                                      *)
(***************************************************************************)
ExtractionFails ==
    HasFrontmatterBlock /\ YamlMalformed(root.children[1].value)

FailingAstPlugins == {i \in 1..NumPlugins : options.plugins[i].ast = "fail"}

Min(S) == CHOOSE x \in S : \A y \in S : x <= y

NothingGenerated ==
    /\ imports = <<>>
    /\ named_exports = <<>>
    /\ reexports = <<>>
    /\ jsx_elements = <<>>
    /\ ctx = NewCodegenContext
    /\ idx = 1
    /\ output = <<>>

\* C9: when the k-th plugin fails in the tree phase, it is the last plugin
\* invoked, nothing is classified, converted or assembled, no text
\* transform runs, and the error returned names that plugin and the AST
\* phase.
C9_AstPluginAbort ==
    /\ \A i \in 1..Len(log) :
           (log[i].phase = "ast" /\ ~log[i].ok) =>
               /\ i = Len(log)
               /\ log[i].plugin = options.plugins[i].name
               /\ Finished
               /\ ~result.ok
               /\ StartsWith(result.msg,
                      <<"Plugin", options.plugins[i].name, "failed during AST transformation">>)
               /\ NothingGenerated
    /\ (pc = "done" /\ ~ExtractionFails /\ FailingAstPlugins # {}) =>
           /\ Len(log) = Min(FailingAstPlugins)
           /\ log[Len(log)].phase = "ast"
           /\ ~log[Len(log)].ok

C9_Witness ==
    /\ pc = "done"
    /\ Len(log) = 2
    /\ log[2].phase = "ast"
    /\ ~log[2].ok
    /\ NumPlugins = 3
    /\ StartsWith(result.msg, <<"Plugin", "p2", "failed during AST transformation">>)

\* C10: a compile that succeeds has invoked tree(p1), ..., tree(pn),
\* text(p1), ..., text(pn) and nothing else, every plugin once per phase
\* and each on what the previous one left.
C10_PluginOrder ==
    (pc = "done" /\ result.ok) =>
        LET n == NumPlugins
        IN  /\ Len(log) = 2 * n
            /\ \A i \in 1..n :
                /\ log[i].phase = "ast"
                /\ log[i].plugin = options.plugins[i].name
                /\ log[i].ok
                /\ log[i].tree_in = IF i = 1 THEN extract_frontmatter(root).tree
                                    ELSE log[i - 1].tree_out
                /\ log[n + i].phase = "jsx"
                /\ log[n + i].plugin = options.plugins[i].name
                /\ log[n + i].ok
                /\ i > 1 => log[n + i].text_in = log[n + i - 1].text_out
            /\ n > 0 => /\ cleaned_root = log[n].tree_out
                        /\ result.code = log[2 * n].text_out

C10_Witness ==
    /\ pc = "done"
    /\ result.ok
    /\ NumPlugins = 2
    /\ options.plugins[1].jsx = "append"
    /\ options.plugins[2].jsx = "append"
    /\ Len(cleaned_root.children) = 3

FailingJsxPlugins == {i \in 1..NumPlugins : options.plugins[i].jsx = "fail"}

JsxCalls == {i \in 1..Len(log) : log[i].phase = "jsx"}

\* C11: when the k-th plugin fails in the text phase, it is the last plugin
\* invoked, the compile returns an error that names that plugin and the JSX
\* phase, and the text transformed so far is not returned.
C11_JsxPluginAbort ==
    /\ \A i \in JsxCalls :
           ~log[i].ok =>
               /\ i = Len(log)
               /\ i > NumPlugins
               /\ log[i].plugin = options.plugins[i - NumPlugins].name
               /\ Finished
               /\ ~result.ok
               /\ result.code = <<>>
               /\ StartsWith(result.msg,
                      <<"Plugin", options.plugins[i - NumPlugins].name,
                        "failed during JSX transformation">>)
    /\ (pc = "done" /\ JsxCalls # {} /\ FailingJsxPlugins # {}) =>
           /\ Len(log) = NumPlugins + Min(FailingJsxPlugins)
           /\ ~log[Len(log)].ok

C11_Witness ==
    /\ pc = "done"
    /\ NumPlugins = 3
    /\ Len(log) = 5
    /\ ~log[5].ok
    /\ \E i \in 1..Len(output) : output[i].sec = "plugin"
    /\ StartsWith(result.msg, <<"Plugin", "p2", "failed during JSX transformation">>)

AstCalls == {i \in 1..Len(log) : log[i].phase = "ast"}

\* the generation stage has begun and has not failed
Generating == pc \in {"children", "assemble", "jsx"}

\* C12: the stages run in the order extraction, tree phase, generation,
\* assembly, text phase: the first tree transform receives the tree left by
\* the extraction, no statement is classified and no node converted before
\* every registered tree transform has returned, no text exists before the
\* assembly, and the first text transform receives the whole assembled
\* module, re-exports included.
C12_StageOrder ==
    /\ pc = "extract" => (log = <<>> /\ NothingGenerated)
    /\ AstCalls # {} =>
           /\ ~extract_frontmatter(root).err
           /\ log[1].phase = "ast"
           /\ log[1].tree_in = extract_frontmatter(root).tree
    /\ pc = "ast" => NothingGenerated
    /\ Generating =>
           /\ AstCalls = 1..NumPlugins
           /\ \A i \in AstCalls : log[i].ok
           /\ \A i \in JsxCalls : i > NumPlugins
    /\ pc \in {"children", "assemble"} => (output = <<>> /\ JsxCalls = {})
    /\ JsxCalls # {} =>
           /\ idx = Len(cleaned_root.children) + 1
           /\ log[NumPlugins + 1].phase = "jsx"
           /\ log[NumPlugins + 1].text_in =
                  BuildOutput(imports, named_exports, Content(jsx_elements), reexports)
           /\ TextsIn(log[NumPlugins + 1].text_in, "reexport") = reexports

C12_Witness ==
    /\ pc = "jsx"
    /\ AstCalls # {}
    /\ JsxCalls # {}
    /\ frontmatter # None
    /\ reexports # <<>>

\* the stages that can fail, read off the input and the tree the tree phase left
CodegenFails ==
    \E i \in 1..Len(cleaned_root.children) :
        /\ ~IsEsm(cleaned_root.children[i])
        /\ node_to_jsx(cleaned_root.children[i], NewCodegenContext).err

SerializationFails == frontmatter # None /\ JsonFails(frontmatter[1].data)

SomeStageFails ==
    \/ ExtractionFails
    \/ FailingAstPlugins # {}
    \/ cleaned_root.type # "Root"
    \/ CodegenFails
    \/ SerializationFails
    \/ FailingJsxPlugins # {}

\* C13: a finished compile is either the complete module text or one error,
\* never both; it is an error exactly when some stage fails; after the first
\* failure no later stage has run and no text is returned.
C13_OneOutcome ==
    pc = "done" =>
        /\ ~ENABLED mdast_to_jsx_with_options
        /\ result.ok <=> ~SomeStageFails
        /\ result.ok =>
               /\ result.msg = <<>>
               /\ result.code = output
               /\ \E i \in 1..Len(result.code) : IsSynthesizedDefault(result.code[i].text)
        /\ ~result.ok =>
               /\ result.code = <<>>
               /\ result.msg # <<>>
               /\ ExtractionFails => (log = <<>> /\ NothingGenerated)
               /\ (\E i \in AstCalls : ~log[i].ok) => NothingGenerated
               /\ JsxCalls = {} => output = <<>>
               /\ JsxCalls = {} =>
                      \A i \in 1..Len(named_exports) :
                          ~StartsWith(named_exports[i], FrontmatterExport(<<>>))
               /\ StartsWith(result.msg, <<"Unexpected node">>) =>
                      /\ idx <= Len(cleaned_root.children)
                      /\ node_to_jsx(cleaned_root.children[idx], ctx).err
                      /\ \A i \in 1..(idx - 1) :
                             \/ IsEsm(cleaned_root.children[i])
                             \/ ~node_to_jsx(cleaned_root.children[i], ctx).err

C13_Witness ==
    /\ pc = "done"
    /\ ~result.ok
    /\ StartsWith(result.msg, <<"Unexpected node">>)
    /\ idx = 2
    /\ frontmatter # None
    /\ Len(cleaned_root.children) = 2
    /\ imports # <<>>

(***************************************************************************)
(* Properties of the context.                                              *)
(***************************************************************************)
IsCustomTag(n) == n.type = "MdxJsxFlowElement"

\* the place in jsx_elements of the expression of the content node at i
ExpressionIndex(i) == Cardinality({j \in 1..i : Emits(cleaned_root.children[j])})

\* C14: the imported-bindings set holds exactly the names bound by the
\* statements classified as plain imports that have been processed; a custom
\* tag whose name is in the set when it is emitted refers to the component
\* directly, any other custom tag is emitted as a tag name looked up in the
\* default-tag mapping.
C14_ImportedBindings ==
    Generating =>
        /\ ctx.imported_components = ImportedBefore(idx)
        /\ \A i \in 1..(idx - 1) :
               IsCustomTag(cleaned_root.children[i]) =>
                   LET tag == cleaned_root.children[i].value[1]
                   IN  jsx_elements[ExpressionIndex(i)] =
                           IF tag \in ImportedBefore(i)
                           THEN <<"_jsx", "(", tag, ")">>
                           ELSE <<"_jsx", "(", "_components", ".", tag, ")">>

C14_Witness ==
    /\ pc = "assemble"
    /\ Len(cleaned_root.children) = 3
    /\ IsCustomTag(cleaned_root.children[1])
    /\ IsCustomTag(cleaned_root.children[3])
    /\ ctx.imported_components = {"X"}
    /\ jsx_elements = << <<"_jsx", "(", "_components", ".", "X", ")">>,
                         <<"_jsx", "(", "X", ")">> >>

(***************************************************************************)
(* Properties of the manifest and of the keys.                             *)
(***************************************************************************)
\* the URLs of the image nodes before position i, in document order
RECURSIVE ImagesBefore(_)
ImagesBefore(i) ==
    IF i <= 1 THEN <<>>
    ELSE ImagesBefore(i - 1)
         \o (IF cleaned_root.children[i - 1].type = "Paragraph"
             THEN cleaned_root.children[i - 1].value ELSE <<>>)

\* C17: the images list holds one entry per image node emitted so far, in
\* document order with repeated URLs kept, and the WASM and Node adapters
\* return exactly the list of the compile result.
C17_ImagesManifest ==
    /\ Generating => ctx.images = ImagesBefore(idx)
    /\ (host.adapter \in {"wasm", "node"} /\ host.ok) =>
           /\ host.core.images = ImagesBefore(Len(cleaned_root.children) + 1)
           /\ host.value.images = host.core.images

C17_Witness ==
    /\ host.adapter = "wasm"
    /\ host.ok
    /\ host.value.images = <<"./b.png", "./a.png", "./a.png">>

\* the key attributes of a text, in order
KeysOf(text) ==
    LET at == SelectSeq([i \in 1..Len(text) |-> i], LAMBDA i : text[i] = "key")
    IN  [j \in 1..Len(at) |-> text[at[j] + 1]]

EmittedKeys == KeysOf(Join(jsx_elements, ","))

C19_EntryIsCompiledCode ==
    (host.adapter = "bundle" /\ host.ok) =>
        /\ host.value.entry = EntryPath
        /\ host.value.virtual_files[host.value.entry] = host.core.code

OptionalFields == {"file", "line", "column", "context", "suggestion"}

\* C20: the error object of the WASM adapter has the message of the core
\* error, has each of file, line, column, context and suggestion exactly
\* when the core error has it, with the same value, and has nothing else.
C20_ErrorFields ==
    (host.adapter = "wasm" /\ ~host.ok) =>
        /\ "message" \in DOMAIN host.value
        /\ host.value["message"] = host.core.message
        /\ DOMAIN host.value \subseteq {"message"} \cup OptionalFields
        /\ \A f \in OptionalFields :
               /\ f \in DOMAIN host.value <=> host.core[f] # None
               /\ f \in DOMAIN host.value => host.value[f] = host.core[f][1]

C20_Witness ==
    /\ host.adapter = "wasm"
    /\ ~host.ok
    /\ DOMAIN host.value = {"message", "line", "context"}
    /\ host.value["line"] = 3

(***************************************************************************)
(* Properties of two compiles.                                             *)
(***************************************************************************)
\* what a finished call hands back: the result, and with a module text the
\* manifest and the context it was generated with
Outcome(l) ==
    IF l.result.ok
    THEN [result |-> l.result, images |-> l.ctx.images, imports |-> l.imports,
          named_exports |-> l.named_exports, reexports |-> l.reexports,
          names |-> l.ctx.imported_components, next_key |-> l.ctx.next_key]
    ELSE [result |-> l.result]

RECURSIVE AstPhase(_, _)
AstPhase(i, tree) ==
    IF i > NumPlugins THEN [err |-> FALSE, tree |-> tree, result |-> NoResult]
    ELSE LET r == transform_ast(AstPluginAt(i), tree)
         IN  IF r.err
             THEN [err |-> TRUE, tree |-> r.tree,
                   result |-> PluginAstError(AstPluginAt(i).name, r.msg)]
             ELSE AstPhase(i + 1, r.tree)

RECURSIVE ChildrenLoop(_, _, _)
ChildrenLoop(children, i, l) ==
    IF i > Len(children) THEN l
    ELSE IF IsEsm(children[i])
    THEN LET code == Trim(children[i].value)
             bucket == Classify(code)
         IN  ChildrenLoop(children, i + 1,
                 [l EXCEPT !.reexports = IF bucket = "reexport"
                                         THEN PushStatement(@, code) ELSE @,
                           !.named_exports = IF bucket = "named_export"
                                             THEN PushStatement(@, code) ELSE @,
                           !.imports = IF bucket = "import"
                                       THEN PushStatement(@, code) ELSE @,
                           !.ctx.imported_components = @ \cup ImportedNames(bucket, code)])
    ELSE LET r == node_to_jsx(children[i], l.ctx)
         IN  IF r.err
             THEN [l EXCEPT !.result = Err(<<"Unexpected node", children[i].type>>)]
             ELSE ChildrenLoop(children, i + 1,
                      [l EXCEPT !.jsx_elements = IF r.val # None
                                                 THEN Append(@, to_js(r.val[1])) ELSE @,
                                !.ctx = r.ctx])

RECURSIVE JsxPhase(_, _)
JsxPhase(i, text) ==
    IF i > NumPlugins THEN Ok(text)
    ELSE LET r == transform_jsx(JsxPluginAt(i), text)
         IN  IF r.err THEN PluginJsxError(JsxPluginAt(i).name, r.msg)
             ELSE JsxPhase(i + 1, r.text)

Failed(l, res) == [l EXCEPT !.result = res]

Alone(tree) ==
    LET l0 == FreshLocals(tree)
        e  == extract_frontmatter(tree)
        a  == AstPhase(1, e.tree)
        l1 == ChildrenLoop(a.tree.children, 1, l0)
        l2 == IF e.fm = None THEN l1
              ELSE [l1 EXCEPT !.named_exports = PushFrontmatter(@, ToJson(e.fm[1].data))]
        l3 == [l2 EXCEPT !.imports =
                   InsertRuntimeImport(@,
                       RuntimeImport(NeedsFragment(l2.jsx_elements), options.jsx_runtime))]
        text == BuildOutput(l3.imports, l3.named_exports, Content(l3.jsx_elements),
                            l3.reexports)
    IN  IF e.err THEN Failed(l0, Err(e.msg))
        ELSE IF a.err THEN Failed(l0, a.result)
        ELSE IF a.tree.type # "Root"
        THEN Failed(l0, Err(<<"Expected Root node, got", a.tree.type>>))
        ELSE IF l1.result # NoResult THEN l1
        ELSE IF e.fm # None /\ JsonFails(e.fm[1].data)
        THEN Failed(l1, Err(<<"Failed to serialize frontmatter to JSON">>))
        ELSE [l3 EXCEPT !.result = JsxPhase(1, text)]

\* C16: a call starts its generation with an empty imported-bindings set,
\* the key counter at its initial value and empty buckets, and whatever the
\* interleaving with a second call on the same options, each call ends
\* with what it ends with when it runs alone: no name, key, image or
\* statement of the other call is in it.
C16_Isolation ==
    /\ (pc = "children" /\ idx = 1) =>
           /\ ctx = NewCodegenContext
           /\ imports = <<>> /\ named_exports = <<>> /\ reexports = <<>>
           /\ jsx_elements = <<>>
    /\ pc = "done" => Outcome(Locals) = Outcome(Alone(root))
    /\ other.pc = "done" => Outcome(other) = Outcome(Alone(other.root))

\* both calls have finished with a module, and their trees differ in the
\* names and keys they hold
C16_Witness ==
    /\ pc = "done" /\ other.pc = "done"
    /\ result.ok /\ other.result.ok
    /\ ctx.imported_components = {"X"}
    /\ other.ctx.imported_components = {}
    /\ ctx.next_key = 0
    /\ other.ctx.next_key = 2
    /\ Len(jsx_elements) = 1
    /\ Len(other.jsx_elements) = 2

(***************************************************************************)
(* Properties of the tree.                                                 *)
(***************************************************************************)
\* the extraction and every registered tree transform have succeeded
TreePhasePassed ==
    /\ ~ExtractionFails
    /\ AstCalls = 1..NumPlugins
    /\ \A i \in AstCalls : log[i].ok

\* C21: when the tree left by the extraction and all tree transforms is not
\* a root, the compile ends with an 'Expected Root node' error, has
\* generated and assembled nothing and has run no text transform; no
\* statement is classified and no node converted off such a tree.
C21_ExpectedRoot ==
    /\ Generating => cleaned_root.type = "Root"
    /\ (Finished /\ TreePhasePassed /\ cleaned_root.type # "Root") =>
           /\ ~result.ok
           /\ result.code = <<>>
           /\ result.msg = <<"Expected Root node, got", cleaned_root.type>>
           /\ NothingGenerated
           /\ JsxCalls = {}
    /\ (Finished /\ StartsWith(result.msg, <<"Expected Root node, got">>)) =>
           (TreePhasePassed /\ cleaned_root.type # "Root")

\* the caller's tree is a root with children and a plugin replaced its top
\* node, with a text transform still registered after it
C21_Witness ==
    /\ pc = "done"
    /\ root.type = "Root"
    /\ root.children # <<>>
    /\ cleaned_root.type # "Root"
    /\ NumPlugins = 2
    /\ options.plugins[2].jsx = "append"
    /\ StartsWith(result.msg, <<"Expected Root node, got">>)

(***************************************************************************)
(* Properties of the pass over the children.                               *)
(***************************************************************************)
\* this step of the loop handles the child at idx and moves on
HandlesChild == pc = "children" /\ idx <= Len(cleaned_root.children) /\ idx' = idx + 1

\* C22: the children are handled one by one in document order, statements
\* and content nodes in the same pass: when the child at position i is
\* converted the imported-bindings set holds exactly the names bound by the
\* plain-import statements at positions before i, so that a custom tag is a
\* direct reference only if its import stands before it, and no step of a
\* compile removes a name from the set.
C22_OnePass ==
    [][ /\ (pc = "children" /\ pc' = "children" /\ idx' # idx) => HandlesChild
        /\ (HandlesChild /\ ~IsEsm(cleaned_root.children[idx])) =>
               /\ ctx.imported_components = ImportedBefore(idx)
               /\ ctx'.imported_components = ctx.imported_components
               /\ IsCustomTag(cleaned_root.children[idx]) =>
                      LET tag == cleaned_root.children[idx].value[1]
                      IN  jsx_elements' =
                              Append(jsx_elements,
                                     IF tag \in ImportedBefore(idx)
                                     THEN <<"_jsx", "(", tag, ")">>
                                     ELSE <<"_jsx", "(", "_components", ".", tag, ")">>)
        /\ (HandlesChild /\ IsEsm(cleaned_root.children[idx])) =>
               /\ ctx'.imported_components = ImportedBefore(idx + 1)
               /\ jsx_elements' = jsx_elements
        /\ ctx.imported_components \subseteq ctx'.imported_components
      ]_vars

\* a custom tag stands before the import that binds its name
C22_Witness ==
    /\ pc = "assemble"
    /\ Len(cleaned_root.children) = 2
    /\ IsCustomTag(cleaned_root.children[1])
    /\ IsEsm(cleaned_root.children[2])
    /\ ctx.imported_components = {cleaned_root.children[1].value[1]}
    /\ jsx_elements = << <<"_jsx", "(", "_components", ".", "X", ")">> >>

\* C23: no step of a compile, nor of the host entry point that called it,
\* changes the tree the caller passed in: the frontmatter removal and the
\* tree transforms write to the compile's own copy.
C23_CallerTreeUnchanged ==
    [][ /\ root' = root
        /\ cleaned_root' # cleaned_root =>
               \/ pc = "extract" /\ cleaned_root' = extract_frontmatter(root).tree
               \/ pc = "ast" /\ cleaned_root' = transform_ast(AstPluginAt(k), cleaned_root).tree
      ]_vars

\* the compile has removed the frontmatter block from its copy and a plugin
\* has changed the copy, then the compile has failed; the caller's tree still
\* has the block
C23_Witness ==
    /\ Finished
    /\ ~result.ok
    /\ HasFrontmatterBlock
    /\ frontmatter # None
    /\ \E i \in AstCalls : log[i].tree_out # log[i].tree_in
    /\ cleaned_root # root
    /\ Len(cleaned_root.children) = Len(root.children)

\* an ESM child of the compile's tree whose trimmed text is the given text
UserDeclared(text) ==
    \E i \in 1..Len(cleaned_root.children) :
        /\ IsEsm(cleaned_root.children[i])
        /\ Trim(cleaned_root.children[i].value) = text

\* C24: in the module assembled before the text phase the first line is the
\* runtime-factory import, in the shape the body needs and with the options'
\* jsx_runtime as its path; the import section holds that line and then one
\* line per import-classified child of the document, nothing else, so with no
\* user imports it holds that line alone; any later line of the module that
\* has an import in it is the text of an ESM child of the document.
C24_RuntimeImport ==
    Assembled =>
        /\ output # <<>>
        /\ output[1] = [sec  |-> "import",
                        text |-> RuntimeImport(NeedsFragment(jsx_elements),
                                               options.jsx_runtime)]
        /\ output[1].text[Len(output[1].text)] = options.jsx_runtime
        /\ output[1].text[Len(output[1].text) - 1] = "from"
        /\ TextsIn(output, "import") = imports
        /\ Len(imports) = 1 + Len(CodesOf(cleaned_root.children, "import"))
        /\ \A i \in 2..Len(imports) : UserDeclared(imports[i])
        /\ \A i \in 2..Len(output) :
               "import" \in Range(output[i].text) => UserDeclared(output[i].text)
        /\ CodesOf(cleaned_root.children, "import") = <<>> =>
               /\ imports = <<output[1].text>>
               /\ \A i \in 2..Len(output) : output[i].sec # "import"

\* a module with a user import after the runtime line, a second import line
\* inside a user statement of the named-export section, and a runtime path
\* that is not the default one
C24_Witness ==
    /\ Assembled
    /\ options.jsx_runtime = "preact/jsx-runtime"
    /\ Len(imports) = 2
    /\ imports[2] = <<"import", "X", "from", "./x">>
    /\ \E i \in 3..Len(output) :
           /\ output[i].sec = "named_export"
           /\ "import" \in Range(output[i].text)

====
